---- MODULE Spec2Model ----
(***************************************************************************)
(* Model of DimensionSourceCalculator (py/smart_resolution_calc.py): the   *)
(* six-level priority resolver that turns a widget state and a runtime     *)
(* context into base dimensions, an aspect ratio and a conflict list.      *)
(*                                                                         *)
(* Representation of Python values:                                        *)
(*   - int            : a TLA+ integer                                     *)
(*   - float          : an exact rational [num, den] (den > 0, reduced)    *)
(*   - mp_value       : thousandths of a megapixel (1500 is 1.5), so that  *)
(*                      mp_value * 1_000_000 is the integer mp_value*1000  *)
(*   - str            : a sequence of one-character strings                *)
(*   - dict           : a record; a missing key is a missing field         *)
(*   - raised error   : the record [exc |-> <exception class name>]        *)
(* round() is Python's round-half-to-even, math.sqrt followed by round()   *)
(* is the nearest integer to the exact square root.                        *)
(***************************************************************************)
EXTENDS Integers, Sequences, FiniteSets, TLC

VARIABLES
    widgets,          \* the widgets dict handed to the resolver
    runtime_context,  \* the runtime_context dict handed to the resolver
    result,           \* what the call under study returned or raised
    arguments,        \* arguments of SmartResolutionCalc.calculate_dimensions
    output,           \* its return value (mp, w, h) or the exception raised
    calculators,      \* instance attributes of each DimensionSourceCalculator
    history           \* the calls made so far on those instances

vars == <<widgets, runtime_context, result, arguments, output, calculators,
          history>>

\* state of the node call, and of the calculator instances and their calls
node_vars == <<arguments, output>>

call_vars == <<calculators, history>>

(***************************************************************************)
(* Bounds of the input space.                                              *)
(***************************************************************************)
\* small width/height values range over MinSmallDim..MaxSmallDim
MaxSmallDim == 2

MinSmallDim == 0 - 1

(***************************************************************************)
(* Arithmetic helpers.                                                     *)
(***************************************************************************)
Abs(x) == IF x < 0 THEN 0 - x ELSE x

RECURSIVE gcdNat(_, _)
gcdNat(a, b) == IF b = 0 THEN a ELSE gcdNat(b, a % b)

\* math.gcd: non-negative, gcd(0, 0) = 0
gcd(a, b) == gcdNat(Abs(a), Abs(b))

\* a Python float holding the exact rational n/d (d # 0)
Rat(n, d) ==
    LET g == gcd(n, d)
        s == IF d < 0 THEN 0 - 1 ELSE 1
    IN  [num |-> (s * n) \div g, den |-> (s * d) \div g]

\* round(n / d) for d > 0: nearest integer, ties to the even one
RoundDiv(n, d) ==
    LET q == n \div d
        r == n % d
    IN  IF 2 * r < d THEN q
        ELSE IF 2 * r > d THEN q + 1
        ELSE IF q % 2 = 0 THEN q ELSE q + 1

\* round(x) of a float x
round(x) == RoundDiv(x.num, x.den)

RECURSIVE ISqrtIter(_, _, _)
ISqrtIter(q, lo, hi) ==
    IF lo >= hi THEN lo
    ELSE LET mid == (lo + hi + 1) \div 2
         IN  IF mid * mid <= q THEN ISqrtIter(q, mid, hi)
             ELSE ISqrtIter(q, lo, mid - 1)

\* floor(sqrt(q)) for 0 <= q < 2^31
ISqrt(q) == ISqrtIter(q, 0, IF q < 46340 THEN q ELSE 46340)

\* round(math.sqrt(n / d)) for n >= 0, d > 0
SqrtRound(n, d) ==
    LET f == ISqrt(n \div d)
        k == f * f + f
        c == 4 * (n - k * d)
    IN  IF c < d THEN f
        ELSE IF c > d THEN f + 1
        ELSE IF f % 2 = 0 THEN f ELSE f + 1

(***************************************************************************)
(* Exceptions.                                                             *)
(***************************************************************************)
Raise(e) == [exc |-> e]

IsRaise(x) == "exc" \in DOMAIN x

(***************************************************************************)
(* Strings: sequences of one-character strings.                            *)
(***************************************************************************)
Digits == {"0", "1", "2", "3", "4", "5", "6", "7", "8", "9"}

DigitVal(c) ==
    CASE c = "0" -> 0 [] c = "1" -> 1 [] c = "2" -> 2 [] c = "3" -> 3
      [] c = "4" -> 4 [] c = "5" -> 5 [] c = "6" -> 6 [] c = "7" -> 7
      [] c = "8" -> 8 [] c = "9" -> 9

\* the regular expression \d+ matched against the whole of s
IsDigits(s) == Len(s) > 0 /\ \A i \in 1..Len(s) : s[i] \in Digits

RECURSIVE DigitsValue(_)
\* int() of a string of digits
DigitsValue(s) ==
    IF Len(s) = 0 THEN 0
    ELSE 10 * DigitsValue(SubSeq(s, 1, Len(s) - 1)) + DigitVal(s[Len(s)])

RECURSIVE Pow10(_)
Pow10(k) == IF k = 0 THEN 1 ELSE 10 * Pow10(k - 1)

\* the regular expression \d+(?:\.\d+)? matched against the whole of s
IsDecimal(s) ==
    \/ IsDigits(s)
    \/ \E i \in 1..Len(s) :
          /\ s[i] = "."
          /\ IsDigits(SubSeq(s, 1, i - 1))
          /\ IsDigits(SubSeq(s, i + 1, Len(s)))

\* float() of a string matching \d+(?:\.\d+)?
DecimalValue(s) ==
    IF IsDigits(s) THEN Rat(DigitsValue(s), 1)
    ELSE LET i == CHOOSE j \in 1..Len(s) : s[j] = "."
         IN  Rat(DigitsValue(SubSeq(s, 1, i - 1) \o SubSeq(s, i + 1, Len(s))),
                 Pow10(Len(s) - i))

RECURSIVE LStrip(_)
LStrip(s) ==
    IF Len(s) > 0 /\ s[1] = " " THEN LStrip(Tail(s)) ELSE s

RECURSIVE RStrip(_)
RStrip(s) ==
    IF Len(s) > 0 /\ s[Len(s)] = " " THEN RStrip(SubSeq(s, 1, Len(s) - 1)) ELSE s

\* str.strip()
Strip(s) == RStrip(LStrip(s))

RECURSIVE LeadingDigits(_)
\* length of the longest prefix of s made of digits
LeadingDigits(s) ==
    IF Len(s) > 0 /\ s[1] \in Digits THEN 1 + LeadingDigits(Tail(s)) ELSE 0

\* dict.get(key, default)
Get(d, key, default) == IF key \in DOMAIN d THEN d[key] ELSE default

(***************************************************************************)
(* Aspect ratio determination.                                             *)
(***************************************************************************)
FallbackAr ==
    [ratio |-> Rat(16, 9), aspectW |-> Rat(16, 1), aspectH |-> Rat(9, 1),
     source |-> "fallback"]

\* variant: the pair is reported without dividing by the gcd
_compute_ar_from_dimensions_Unreduced(w, h) ==
    IF gcd(w, h) = 0 \/ h = 0 THEN Raise("ZeroDivisionError")
    ELSE [ratio |-> Rat(w, h), aspectW |-> Rat(w, 1), aspectH |-> Rat(h, 1)]

\* _compute_ar_from_dimensions(w, h): 0 // 0 and w / 0 raise
_compute_ar_from_dimensions(w, h) ==
    LET divisor == gcd(w, h)
    IN  IF divisor = 0 \/ h = 0 THEN Raise("ZeroDivisionError")
        ELSE [ratio |-> Rat(w, h),
              aspectW |-> Rat(w \div divisor, 1),
              aspectH |-> Rat(h \div divisor, 1)]

\* _parse_custom_aspect_ratio(text)
_parse_custom_aspect_ratio(text) ==
    LET t == Strip(text)
        colons == {i \in 1..Len(t) :
                      /\ t[i] = ":"
                      /\ IsDecimal(SubSeq(t, 1, i - 1))
                      /\ IsDecimal(SubSeq(t, i + 1, Len(t)))}
    IN  IF colons # {}
        THEN LET i == CHOOSE j \in colons : TRUE
                 w == DecimalValue(SubSeq(t, 1, i - 1))
                 h == DecimalValue(SubSeq(t, i + 1, Len(t)))
             IN  IF h.num = 0 THEN Raise("ZeroDivisionError")
                 ELSE [ratio |-> Rat(w.num * h.den, w.den * h.num),
                       aspectW |-> w, aspectH |-> h,
                       source |-> "custom_ratio"]
        ELSE FallbackAr

\* _parse_dropdown_aspect_ratio(value)
_parse_dropdown_aspect_ratio(value) ==
    LET n1 == LeadingDigits(value)
        rest == SubSeq(value, n1 + 2, Len(value))
        n2 == LeadingDigits(rest)
    IN  IF n1 > 0 /\ Len(value) > n1 /\ value[n1 + 1] = ":" /\ n2 > 0
        THEN LET w == DigitsValue(SubSeq(value, 1, n1))
                 h == DigitsValue(SubSeq(rest, 1, n2))
             IN  IF h = 0 THEN Raise("ZeroDivisionError")
                 ELSE [ratio |-> Rat(w, h),
                       aspectW |-> Rat(w, 1), aspectH |-> Rat(h, 1),
                       source |-> "dropdown"]
        ELSE FallbackAr

DefaultCustomText == <<"1", ":", "1">>

DefaultDropdown ==
    <<"1", "6", ":", "9", " ", "(", "H", "D", " ", "V", "i", "d", "e", "o",
      "/", "Y", "o", "u", "T", "u", "b", "e", "/", "T", "V", ")">>

\* variant: the dropdown label is parsed even when the custom ratio is enabled
_get_active_aspect_ratio_DropdownOnly(w) ==
    _parse_dropdown_aspect_ratio(Get(w, "aspect_ratio_dropdown", DefaultDropdown))

\* _get_active_aspect_ratio(widgets): custom ratio over dropdown
_get_active_aspect_ratio(w) ==
    IF Get(w, "custom_ratio_enabled", FALSE)
    THEN _parse_custom_aspect_ratio(Get(w, "custom_aspect_ratio", DefaultCustomText))
    ELSE _parse_dropdown_aspect_ratio(Get(w, "aspect_ratio_dropdown", DefaultDropdown))

(***************************************************************************)
(* Float arithmetic of the dimension formulas.                             *)
(***************************************************************************)
\* round(x / ratio) for an int x and a float ratio
RoundOver(x, ratio) ==
    IF ratio.num = 0 THEN Raise("ZeroDivisionError")
    ELSE IF ratio.num > 0 THEN [value |-> RoundDiv(x * ratio.den, ratio.num)]
    ELSE [value |-> RoundDiv(0 - x * ratio.den, 0 - ratio.num)]

\* round(x * ratio) for an int x and a float ratio
RoundTimes(x, ratio) == RoundDiv(x * ratio.num, ratio.den)

\* variant: the width is derived from the already rounded height
ScaleToPixels_FromRoundedHeight(target_mp, ratio) ==
    IF ratio.num = 0 THEN Raise("ZeroDivisionError")
    ELSE IF target_mp = 0 THEN [w |-> 0, h |-> 0]
    ELSE IF (target_mp < 0) # (ratio.num < 0) THEN Raise("ValueError")
    ELSE LET h == SqrtRound(Abs(target_mp) * ratio.den, Abs(ratio.num))
         IN  [w |-> RoundDiv(h * ratio.num, ratio.den), h |-> h]

\* h = math.sqrt(target_mp / ratio); w = h * ratio; (round(w), round(h))
ScaleToPixels(target_mp, ratio) ==
    IF ratio.num = 0 THEN Raise("ZeroDivisionError")
    ELSE IF target_mp = 0 THEN [w |-> 0, h |-> 0]
    ELSE IF (target_mp < 0) # (ratio.num < 0) THEN Raise("ValueError")
    ELSE IF target_mp > 0
         THEN [w |-> SqrtRound(target_mp * ratio.num, ratio.den),
               h |-> SqrtRound(target_mp * ratio.den, ratio.num)]
         ELSE [w |-> 0 - SqrtRound(target_mp * ratio.num, ratio.den),
               h |-> SqrtRound((0 - target_mp) * ratio.den, 0 - ratio.num)]

\* widgets['mp_value'] * 1_000_000
TargetPixels(w) == w.mp_value * 1000

\* variant: a binary megapixel, 1024 * 1024
DefaultPixels_Binary == 1024 * 1024

\* target_pixels = 1.0 * 1_000_000 of the Defaults formulas
DefaultPixels == 1000000

(***************************************************************************)
(* Conflict detection.                                                     *)
(***************************************************************************)
Conflict(type, severity, affected) ==
    [type |-> type, severity |-> severity, affectedWidgets |-> affected]

\* image_mode_enabled and image_mode_value == v
ImageModeIs(w, v) ==
    Get(w, "image_mode_enabled", FALSE) /\ Get(w, "image_mode_value", 0 - 1) = v

\* variant: Exact Dims reports the widgets only when width and height are
\* both enabled
_detect_conflicts_WidthAndHeight(active_mode, w) ==
    (IF active_mode = "exact_dims"
     THEN (IF Get(w, "width_enabled", FALSE) /\ Get(w, "height_enabled", FALSE)
           THEN <<Conflict("exact_dims_overrides_widgets", "info",
                           <<"dimension_width", "dimension_height">>)>>
           ELSE << >>)
          \o
          (IF Get(w, "mp_enabled", FALSE)
           THEN <<Conflict("exact_dims_overrides_mp", "info",
                           <<"dimension_megapixel">>)>>
           ELSE << >>)
     ELSE << >>)
    \o
    (IF active_mode = "mp_scalar_with_ar"
     THEN (IF Get(w, "custom_ratio_enabled", FALSE)
           THEN <<Conflict("mp_scalar_overrides_custom_ar", "warning",
                           <<"custom_ratio", "custom_aspect_ratio">>)>>
           ELSE << >>)
          \o
          (IF ImageModeIs(w, 0)
           THEN <<Conflict("mp_scalar_overrides_image_ar", "warning",
                           <<"image_mode">>)>>
           ELSE << >>)
     ELSE << >>)
    \o
    (IF active_mode \in {"width_height_explicit", "mp_width_explicit",
                         "mp_height_explicit"}
     THEN (IF Get(w, "custom_ratio_enabled", FALSE)
           THEN <<Conflict("explicit_dims_overrides_custom_ar", "warning",
                           <<"custom_ratio", "custom_aspect_ratio">>)>>
           ELSE << >>)
          \o
          (IF ImageModeIs(w, 0)
           THEN <<Conflict("explicit_dims_overrides_image_ar", "warning",
                           <<"image_mode">>)>>
           ELSE << >>)
          \o
          <<Conflict("explicit_dims_overrides_dropdown_ar", "info",
                     <<"aspect_ratio">>)>>
     ELSE << >>)
    \o
    (IF active_mode = "ar_only"
     THEN (IF Get(w, "custom_ratio_enabled", FALSE)
           THEN <<Conflict("ar_only_overrides_custom", "warning",
                           <<"custom_ratio", "custom_aspect_ratio">>)>>
           ELSE << >>)
     ELSE << >>)

\* _detect_conflicts(active_mode, widgets)
_detect_conflicts(active_mode, w) ==
    (IF active_mode = "exact_dims"
     THEN (IF Get(w, "width_enabled", FALSE) \/ Get(w, "height_enabled", FALSE)
           THEN <<Conflict("exact_dims_overrides_widgets", "info",
                           <<"dimension_width", "dimension_height">>)>>
           ELSE << >>)
          \o
          (IF Get(w, "mp_enabled", FALSE)
           THEN <<Conflict("exact_dims_overrides_mp", "info",
                           <<"dimension_megapixel">>)>>
           ELSE << >>)
     ELSE << >>)
    \o
    (IF active_mode = "mp_scalar_with_ar"
     THEN (IF Get(w, "custom_ratio_enabled", FALSE)
           THEN <<Conflict("mp_scalar_overrides_custom_ar", "warning",
                           <<"custom_ratio", "custom_aspect_ratio">>)>>
           ELSE << >>)
          \o
          (IF ImageModeIs(w, 0)
           THEN <<Conflict("mp_scalar_overrides_image_ar", "warning",
                           <<"image_mode">>)>>
           ELSE << >>)
     ELSE << >>)
    \o
    (IF active_mode \in {"width_height_explicit", "mp_width_explicit",
                         "mp_height_explicit"}
     THEN (IF Get(w, "custom_ratio_enabled", FALSE)
           THEN <<Conflict("explicit_dims_overrides_custom_ar", "warning",
                           <<"custom_ratio", "custom_aspect_ratio">>)>>
           ELSE << >>)
          \o
          (IF ImageModeIs(w, 0)
           THEN <<Conflict("explicit_dims_overrides_image_ar", "warning",
                           <<"image_mode">>)>>
           ELSE << >>)
          \o
          <<Conflict("explicit_dims_overrides_dropdown_ar", "info",
                     <<"aspect_ratio">>)>>
     ELSE << >>)
    \o
    (IF active_mode = "ar_only"
     THEN (IF Get(w, "custom_ratio_enabled", FALSE)
           THEN <<Conflict("ar_only_overrides_custom", "warning",
                           <<"custom_ratio", "custom_aspect_ratio">>)>>
           ELSE << >>)
     ELSE << >>)

(***************************************************************************)
(* Priority level implementations.  The 'description' string of a result   *)
(* is display text only and is not modelled.                               *)
(***************************************************************************)
\* variant: every reported conflict takes one pixel off the width
Result_ConflictPenalty(mode, priority, baseW, baseH, source, ar, conflicts, activeSources) ==
    [mode |-> mode, priority |-> priority,
     baseW |-> baseW - Len(conflicts), baseH |-> baseH,
     source |-> source, ar |-> ar, conflicts |-> conflicts,
     activeSources |-> activeSources]

Result(mode, priority, baseW, baseH, source, ar, conflicts, activeSources) ==
    [mode |-> mode, priority |-> priority, baseW |-> baseW, baseH |-> baseH,
     source |-> source, ar |-> ar, conflicts |-> conflicts,
     activeSources |-> activeSources]

\* runtime_context.get('image_info') is truthy
HasImage(rc) == "image_info" \in DOMAIN rc

\* variant: the fallback reports the widgets that Exact Dims would override
_calculate_defaults_ExactDimsConflicts(w) ==
    LET ar == _get_active_aspect_ratio(w)
    IN  IF IsRaise(ar) THEN ar
        ELSE LET d == ScaleToPixels(DefaultPixels, ar.ratio)
             IN  IF IsRaise(d) THEN d
                 ELSE Result("defaults_with_ar", 6, d.w, d.h, "defaults", ar,
                             _detect_conflicts("exact_dims", w), << >>)

\* Priority 6
_calculate_defaults(w) ==
    LET ar == _get_active_aspect_ratio(w)
    IN  IF IsRaise(ar) THEN ar
        ELSE LET d == ScaleToPixels(DefaultPixels, ar.ratio)
             IN  IF IsRaise(d) THEN d
                 ELSE Result("defaults_with_ar", 6, d.w, d.h, "defaults", ar,
                             << >>, << >>)

\* variant: the tensor's height and width are taken in the wrong order
_calculate_exact_dims_Swapped(w, rc) ==
    IF ~HasImage(rc) THEN _calculate_defaults(w)
    ELSE LET iw == rc.image_info.height
             ih == rc.image_info.width
             ar == _compute_ar_from_dimensions(iw, ih)
         IN  IF IsRaise(ar) THEN ar
             ELSE Result("exact_dims", 1, iw, ih, "image", ar,
                         _detect_conflicts("exact_dims", w), << >>)

\* Priority 1
_calculate_exact_dims(w, rc) ==
    IF ~HasImage(rc) THEN _calculate_defaults(w)
    ELSE LET iw == rc.image_info.width
             ih == rc.image_info.height
             ar == _compute_ar_from_dimensions(iw, ih)
         IN  IF IsRaise(ar) THEN ar
             ELSE Result("exact_dims", 1, iw, ih, "image", ar,
                         _detect_conflicts("exact_dims", w), << >>)

\* variant: the conflicts of the explicit pairs are detected for the scalar
_calculate_mp_scalar_with_ar_ExplicitConflicts(w) ==
    LET ar == _compute_ar_from_dimensions(w.width_value, w.height_value)
    IN  IF IsRaise(ar) THEN ar
        ELSE LET d == ScaleToPixels(TargetPixels(w), ar.ratio)
             IN  IF IsRaise(d) THEN d
                 ELSE Result("mp_scalar_with_ar", 2, d.w, d.h,
                             "widgets_mp_scalar", ar,
                             _detect_conflicts("width_height_explicit", w),
                             <<"WIDTH", "HEIGHT", "MEGAPIXEL">>)

\* Priority 2
_calculate_mp_scalar_with_ar(w) ==
    LET ar == _compute_ar_from_dimensions(w.width_value, w.height_value)
    IN  IF IsRaise(ar) THEN ar
        ELSE LET d == ScaleToPixels(TargetPixels(w), ar.ratio)
             IN  IF IsRaise(d) THEN d
                 ELSE Result("mp_scalar_with_ar", 2, d.w, d.h,
                             "widgets_mp_scalar", ar,
                             _detect_conflicts("mp_scalar_with_ar", w),
                             <<"WIDTH", "HEIGHT", "MEGAPIXEL">>)

\* variant: the reported ratio is the active (custom / dropdown) one
_calculate_width_height_explicit_ActiveAr(w) ==
    LET ar == _get_active_aspect_ratio(w)
    IN  IF IsRaise(ar) THEN ar
        ELSE Result("width_height_explicit", 3, w.width_value, w.height_value,
                    "widgets_explicit", ar,
                    _detect_conflicts("width_height_explicit", w),
                    <<"WIDTH", "HEIGHT">>)

\* Priority 3a
_calculate_width_height_explicit(w) ==
    LET ar == _compute_ar_from_dimensions(w.width_value, w.height_value)
    IN  IF IsRaise(ar) THEN ar
        ELSE Result("width_height_explicit", 3, w.width_value, w.height_value,
                    "widgets_explicit", ar,
                    _detect_conflicts("width_height_explicit", w),
                    <<"WIDTH", "HEIGHT">>)

\* variant: the computed height is truncated instead of rounded
_calculate_mp_width_explicit_Truncated(w) ==
    LET bw == w.width_value
        bh == IF bw > 0 THEN TargetPixels(w) \div bw ELSE 1080
        ar == _compute_ar_from_dimensions(bw, bh)
    IN  IF IsRaise(ar) THEN ar
        ELSE Result("mp_width_explicit", 3, bw, bh, "widgets_mp_computed", ar,
                    _detect_conflicts("mp_width_explicit", w),
                    <<"WIDTH", "MEGAPIXEL">>)

\* Priority 3b
_calculate_mp_width_explicit(w) ==
    LET bw == w.width_value
        bh == IF bw > 0 THEN RoundDiv(TargetPixels(w), bw) ELSE 1080
        ar == _compute_ar_from_dimensions(bw, bh)
    IN  IF IsRaise(ar) THEN ar
        ELSE Result("mp_width_explicit", 3, bw, bh, "widgets_mp_computed", ar,
                    _detect_conflicts("mp_width_explicit", w),
                    <<"WIDTH", "MEGAPIXEL">>)

\* variant: the conflicts of the scalar are detected for MP+H
_calculate_mp_height_explicit_ScalarConflicts(w) ==
    LET bh == w.height_value
        bw == IF bh > 0 THEN RoundDiv(TargetPixels(w), bh) ELSE 1920
        ar == _compute_ar_from_dimensions(bw, bh)
    IN  IF IsRaise(ar) THEN ar
        ELSE Result("mp_height_explicit", 3, bw, bh, "widgets_mp_computed", ar,
                    _detect_conflicts("mp_scalar_with_ar", w),
                    <<"HEIGHT", "MEGAPIXEL">>)

\* Priority 3c
_calculate_mp_height_explicit(w) ==
    LET bh == w.height_value
        bw == IF bh > 0 THEN RoundDiv(TargetPixels(w), bh) ELSE 1920
        ar == _compute_ar_from_dimensions(bw, bh)
    IN  IF IsRaise(ar) THEN ar
        ELSE Result("mp_height_explicit", 3, bw, bh, "widgets_mp_computed", ar,
                    _detect_conflicts("mp_height_explicit", w),
                    <<"HEIGHT", "MEGAPIXEL">>)

\* variant: the conflicts of the explicit pairs are reported
_calculate_ar_only_ExplicitConflicts(w, rc) ==
    IF ~HasImage(rc) THEN _calculate_defaults(w)
    ELSE
    LET image_ar == _compute_ar_from_dimensions(rc.image_info.width,
                                                rc.image_info.height)
        Done(bw, bh, active) ==
            Result("ar_only", 4, bw, bh, "image_ar", image_ar,
                   _detect_conflicts("width_height_explicit", w), active)
    IN  IF IsRaise(image_ar) THEN image_ar
        ELSE IF Get(w, "width_enabled", FALSE)
        THEN LET bh == RoundOver(w.width_value, image_ar.ratio)
             IN  IF IsRaise(bh) THEN bh
                 ELSE Done(w.width_value, bh.value, <<"WIDTH">>)
        ELSE IF Get(w, "height_enabled", FALSE)
        THEN Done(RoundTimes(w.height_value, image_ar.ratio), w.height_value,
                  <<"HEIGHT">>)
        ELSE IF Get(w, "mp_enabled", FALSE)
        THEN LET d == ScaleToPixels(TargetPixels(w), image_ar.ratio)
             IN  IF IsRaise(d) THEN d ELSE Done(d.w, d.h, <<"MEGAPIXEL">>)
        ELSE LET d == ScaleToPixels(DefaultPixels, image_ar.ratio)
             IN  IF IsRaise(d) THEN d ELSE Done(d.w, d.h, << >>)

\* Priority 4
_calculate_ar_only(w, rc) ==
    IF ~HasImage(rc) THEN _calculate_defaults(w)
    ELSE
    LET image_ar == _compute_ar_from_dimensions(rc.image_info.width,
                                                rc.image_info.height)
        Done(bw, bh, active) ==
            Result("ar_only", 4, bw, bh, "image_ar", image_ar,
                   _detect_conflicts("ar_only", w), active)
    IN  IF IsRaise(image_ar) THEN image_ar
        ELSE IF Get(w, "width_enabled", FALSE)
        THEN LET bh == RoundOver(w.width_value, image_ar.ratio)
             IN  IF IsRaise(bh) THEN bh
                 ELSE Done(w.width_value, bh.value, <<"WIDTH">>)
        ELSE IF Get(w, "height_enabled", FALSE)
        THEN Done(RoundTimes(w.height_value, image_ar.ratio), w.height_value,
                  <<"HEIGHT">>)
        ELSE IF Get(w, "mp_enabled", FALSE)
        THEN LET d == ScaleToPixels(TargetPixels(w), image_ar.ratio)
             IN  IF IsRaise(d) THEN d ELSE Done(d.w, d.h, <<"MEGAPIXEL">>)
        ELSE LET d == ScaleToPixels(DefaultPixels, image_ar.ratio)
             IN  IF IsRaise(d) THEN d ELSE Done(d.w, d.h, << >>)

\* variant: the source tag of the explicit pair is reported
_calculate_width_with_ar_ExplicitSource(w) ==
    LET ar == _get_active_aspect_ratio(w)
    IN  IF IsRaise(ar) THEN ar
        ELSE LET bh == RoundOver(w.width_value, ar.ratio)
             IN  IF IsRaise(bh) THEN bh
                 ELSE Result("width_with_ar", 5, w.width_value, bh.value,
                             "widgets_explicit", ar,
                             _detect_conflicts("width_with_ar", w), <<"WIDTH">>)

\* Priority 5a
_calculate_width_with_ar(w) ==
    LET ar == _get_active_aspect_ratio(w)
    IN  IF IsRaise(ar) THEN ar
        ELSE LET bh == RoundOver(w.width_value, ar.ratio)
             IN  IF IsRaise(bh) THEN bh
                 ELSE Result("width_with_ar", 5, w.width_value, bh.value,
                             "widget_with_ar", ar,
                             _detect_conflicts("width_with_ar", w), <<"WIDTH">>)

\* variant: the height is divided by the ratio
_calculate_height_with_ar_Divided(w) ==
    LET ar == _get_active_aspect_ratio(w)
    IN  IF IsRaise(ar) THEN ar
        ELSE LET bw == RoundOver(w.height_value, ar.ratio)
             IN  IF IsRaise(bw) THEN bw
                 ELSE Result("height_with_ar", 5, bw.value, w.height_value,
                             "widget_with_ar", ar,
                             _detect_conflicts("height_with_ar", w),
                             <<"HEIGHT">>)

\* Priority 5b
_calculate_height_with_ar(w) ==
    LET ar == _get_active_aspect_ratio(w)
    IN  IF IsRaise(ar) THEN ar
        ELSE Result("height_with_ar", 5, RoundTimes(w.height_value, ar.ratio),
                    w.height_value, "widget_with_ar", ar,
                    _detect_conflicts("height_with_ar", w), <<"HEIGHT">>)

\* variant: WIDTH is reported as the active source
_calculate_mp_with_ar_WidthSource(w) ==
    LET ar == _get_active_aspect_ratio(w)
    IN  IF IsRaise(ar) THEN ar
        ELSE LET d == ScaleToPixels(TargetPixels(w), ar.ratio)
             IN  IF IsRaise(d) THEN d
                 ELSE Result("mp_with_ar", 5, d.w, d.h, "widget_with_ar", ar,
                             _detect_conflicts("mp_with_ar", w), <<"WIDTH">>)

\* Priority 5c
_calculate_mp_with_ar(w) ==
    LET ar == _get_active_aspect_ratio(w)
    IN  IF IsRaise(ar) THEN ar
        ELSE LET d == ScaleToPixels(TargetPixels(w), ar.ratio)
             IN  IF IsRaise(d) THEN d
                 ELSE Result("mp_with_ar", 5, d.w, d.h, "widget_with_ar", ar,
                             _detect_conflicts("mp_with_ar", w), <<"MEGAPIXEL">>)

(***************************************************************************)
(* The priority dispatcher.                                                *)
(***************************************************************************)
\* variant: the single dimensions are tested before the pairs of priority 3
calculate_dimension_source_SingleFirst(w, rc) ==
    LET has_mp == Get(w, "mp_enabled", FALSE)
        has_width == Get(w, "width_enabled", FALSE)
        has_height == Get(w, "height_enabled", FALSE)
    IN  IF ImageModeIs(w, 1) THEN _calculate_exact_dims(w, rc)
        ELSE IF has_mp /\ has_width /\ has_height
             THEN _calculate_mp_scalar_with_ar(w)
        ELSE IF ImageModeIs(w, 0) THEN _calculate_ar_only(w, rc)
        ELSE IF has_width THEN _calculate_width_with_ar(w)
        ELSE IF has_height THEN _calculate_height_with_ar(w)
        ELSE IF has_mp THEN _calculate_mp_with_ar(w)
        ELSE IF has_width /\ has_height THEN _calculate_width_height_explicit(w)
        ELSE IF has_mp /\ has_width THEN _calculate_mp_width_explicit(w)
        ELSE IF has_mp /\ has_height THEN _calculate_mp_height_explicit(w)
        ELSE _calculate_defaults(w)

\* variant: AR Only is tested before the explicit pairs of priority 3
calculate_dimension_source_ArOnlyFirst(w, rc) ==
    LET has_mp == Get(w, "mp_enabled", FALSE)
        has_width == Get(w, "width_enabled", FALSE)
        has_height == Get(w, "height_enabled", FALSE)
    IN  IF ImageModeIs(w, 1) THEN _calculate_exact_dims(w, rc)
        ELSE IF has_mp /\ has_width /\ has_height
             THEN _calculate_mp_scalar_with_ar(w)
        ELSE IF ImageModeIs(w, 0) THEN _calculate_ar_only(w, rc)
        ELSE IF has_width /\ has_height THEN _calculate_width_height_explicit(w)
        ELSE IF has_mp /\ has_width THEN _calculate_mp_width_explicit(w)
        ELSE IF has_mp /\ has_height THEN _calculate_mp_height_explicit(w)
        ELSE IF has_width THEN _calculate_width_with_ar(w)
        ELSE IF has_height THEN _calculate_height_with_ar(w)
        ELSE IF has_mp THEN _calculate_mp_with_ar(w)
        ELSE _calculate_defaults(w)

\* calculate_dimension_source(widgets, runtime_context)
calculate_dimension_source(w, rc) ==
    LET has_mp == Get(w, "mp_enabled", FALSE)
        has_width == Get(w, "width_enabled", FALSE)
        has_height == Get(w, "height_enabled", FALSE)
    IN  IF ImageModeIs(w, 1) THEN _calculate_exact_dims(w, rc)
        ELSE IF has_mp /\ has_width /\ has_height
             THEN _calculate_mp_scalar_with_ar(w)
        ELSE IF has_width /\ has_height THEN _calculate_width_height_explicit(w)
        ELSE IF has_mp /\ has_width THEN _calculate_mp_width_explicit(w)
        ELSE IF has_mp /\ has_height THEN _calculate_mp_height_explicit(w)
        ELSE IF ImageModeIs(w, 0) THEN _calculate_ar_only(w, rc)
        ELSE IF has_width THEN _calculate_width_with_ar(w)
        ELSE IF has_height THEN _calculate_height_with_ar(w)
        ELSE IF has_mp THEN _calculate_mp_with_ar(w)
        ELSE _calculate_defaults(w)

(***************************************************************************)
(* Input space.                                                            *)
(***************************************************************************)
\* (width_value, height_value): every small pair, and the documented sizes
DimensionPairs ==
    ((MinSmallDim..MaxSmallDim) \X (MinSmallDim..MaxSmallDim))
    \cup {<<1920, 1080>>, <<1200, 800>>, <<1024, 768>>}

\* mp_value in thousandths: -1.0, 0, 1.0, 1.5
MegapixelValues == {0 - 1000, 0, 1000, 1500}

CustomTexts ==
    { <<"2", ".", "3", "9", ":", "1">>,
      <<" ", "4", ":", "3", " ">>,
      <<"1", "6", ":", "0">>,
      <<"i", "n", "v", "a", "l", "i", "d", " ", "t", "e", "x", "t">> }

DropdownLabels ==
    { DefaultDropdown,
      <<"2", "1", ":", "9", " ", "(", "U", "l", "t", "r", "a", "w", "i", "d",
        "e", " ", "C", "i", "n", "e", "m", "a", " ", "2", ".", "3", "5", ":",
        "1", ")">>,
      <<"1", "6", ":", "0">>,
      <<"b", "a", "d">> }

ImageInfos ==
    { [width |-> 1920, height |-> 1080], [width |-> 2, height |-> 3] }

\* runtime_context None or {} (no image_info key)
NoImageContext == [image_present |-> FALSE]

RuntimeContexts == {NoImageContext} \cup {[image_info |-> i] : i \in ImageInfos}

WidgetStates ==
    { [width_enabled |-> we, width_value |-> wh[1],
       height_enabled |-> he, height_value |-> wh[2],
       mp_enabled |-> me, mp_value |-> mv,
       image_mode_enabled |-> ie, image_mode_value |-> iv,
       custom_ratio_enabled |-> ce, custom_aspect_ratio |-> ct,
       aspect_ratio_dropdown |-> dd] :
         we \in BOOLEAN, he \in BOOLEAN, me \in BOOLEAN, ie \in BOOLEAN,
         ce \in BOOLEAN, iv \in {0, 1}, wh \in DimensionPairs,
         mv \in MegapixelValues, ct \in CustomTexts, dd \in DropdownLabels }

\* no call made yet
NoResult == [pending |-> TRUE]

\* no node call under study
NoArguments == [absent |-> TRUE]

NoOutput == [pending |-> TRUE]

\* no calculator instance under study
NoCalculators == << >>

NoHistory == << >>

HasResult == "pending" \notin DOMAIN result

Returned == HasResult /\ ~IsRaise(result)

Raised == HasResult /\ IsRaise(result)

(***************************************************************************)
(* State machine: one call of the resolver on one input.                   *)
(***************************************************************************)
Init ==
    /\ widgets \in WidgetStates
    /\ runtime_context \in RuntimeContexts
    /\ result = NoResult
    /\ arguments = NoArguments /\ output = NoOutput
    /\ calculators = NoCalculators /\ history = NoHistory

\* calculator.calculate_dimension_source(widgets, runtime_context)
CalculateDimensionSource ==
    /\ ~HasResult
    /\ result' = calculate_dimension_source(widgets, runtime_context)
    /\ UNCHANGED <<widgets, runtime_context, node_vars, call_vars>>

Next == CalculateDimensionSource

Spec == Init /\ [][Next]_vars

(***************************************************************************)
(* Vocabulary of the properties.                                           *)
(***************************************************************************)
Min(a, b) == IF a < b THEN a ELSE b

\* number of enabled dimension inputs among width, height, megapixel
EnabledCount ==
    Cardinality({k \in {"width_enabled", "height_enabled", "mp_enabled"} :
                    widgets[k]})

\* the condition of priority level l, as the specification words it
LevelCondition(l) ==
    CASE l = 1 -> widgets.image_mode_enabled /\ widgets.image_mode_value = 1
      [] l = 2 -> EnabledCount = 3
      [] l = 3 -> EnabledCount = 2
      [] l = 4 -> widgets.image_mode_enabled /\ widgets.image_mode_value = 0
      [] l = 5 -> EnabledCount = 1
      [] l = 6 -> TRUE

\* the lowest-numbered level whose condition holds
SelectedLevel ==
    CHOOSE l \in 1..6 :
        LevelCondition(l) /\ \A m \in 1..(l - 1) : ~LevelCondition(m)

\* level 1 or 4 is selected and there is no image to read
MissingImageFallback == SelectedLevel \in {1, 4} /\ ~HasImage(runtime_context)

\* a and b (positive) have no common divisor above 1
Coprime(a, b) == \A k \in 2..Min(a, b) : ~(a % k = 0 /\ b % k = 0)

\* ar.aspectW:ar.aspectH are w and h divided by their greatest common
\* divisor, and ar.ratio is w/h
IsGcdReduction(ar, w, h) ==
    /\ ar.aspectW.den = 1
    /\ ar.aspectH.den = 1
    /\ ar.ratio.num * h = ar.ratio.den * w
    /\ LET top == IF w = 0 THEN Abs(h) ELSE Min(Abs(w), Abs(h))
       IN  \E g \in 1..top :
              /\ w = g * ar.aspectW.num
              /\ h = g * ar.aspectH.num
              /\ \A k \in (g + 1)..top : ~(w % k = 0 /\ h % k = 0)

\* n is n/d rounded to the nearest integer, ties to even (d > 0)
IsRoundOf(r, n, d) ==
    /\ 2 * Abs(n - r * d) <= d
    /\ 2 * Abs(n - r * d) = d => r % 2 = 0

\* r is sqrt(n/d) rounded to the nearest integer, ties to even (n >= 0, d > 0)
IsRoundSqrtOf(r, n, d) ==
    /\ r >= 0
    /\ r > 0 => (2 * r - 1) * (2 * r - 1) * d <= 4 * n
    /\ 4 * n <= (2 * r + 1) * (2 * r + 1) * d
    /\ (r > 0 /\ (2 * r - 1) * (2 * r - 1) * d = 4 * n) => r % 2 = 0
    /\ 4 * n = (2 * r + 1) * (2 * r + 1) * d => r % 2 = 0

(***************************************************************************)
(* C1.  Totality: for every widget state and runtime context the call      *)
(* returns a result whose priority is in 1..6; it never raises.            *)
(* The code raises (ZeroDivisionError, ValueError), so this is violated.   *)
(***************************************************************************)
C1_Totality ==
    HasResult => (~IsRaise(result) /\ result.priority \in 1..6)

(***************************************************************************)
(* C2.  Every returned result has baseW >= 1 and baseH >= 1.               *)
(* The code returns 0 and negative dimensions, so this is violated.        *)
(***************************************************************************)
C2_BaseDimensionsPositive ==
    Returned => (result.baseW >= 1 /\ result.baseH >= 1)

(***************************************************************************)
(* C3.  Priority exclusivity: the returned priority is the lowest-numbered *)
(* level whose condition holds, except that level 1 or 4 without an image  *)
(* yields level 6.                                                         *)
(***************************************************************************)
C3_PriorityExclusivity ==
    Returned =>
        result.priority = IF MissingImageFallback THEN 6 ELSE SelectedLevel

\* the conditions of levels 3 and 4 hold at once, an image is present, and
\* the lower-numbered level 3 was returned
C3_Witness ==
    /\ Returned
    /\ LevelCondition(3) /\ LevelCondition(4)
    /\ HasImage(runtime_context)
    /\ result.priority = 3

(***************************************************************************)
(* C4.  Missing-image fallback: when level 1 or level 4 is selected and    *)
(* there is no image, the call does not raise and returns the Defaults     *)
(* result: priority 6, mode defaults_with_ar, the dimensions of 1,000,000  *)
(* pixels at the active aspect ratio.                                      *)
(* Violated: the Defaults formula raises on a custom ratio or a preset    *)
(* label such as "16:0".                                                   *)
(***************************************************************************)
C4_MissingImageFallback ==
    (HasResult /\ MissingImageFallback) =>
        /\ ~IsRaise(result)
        /\ result.priority = 6
        /\ result.mode = "defaults_with_ar"
        /\ result.ar.ratio.num > 0
        /\ IsRoundSqrtOf(result.baseW, DefaultPixels * result.ar.ratio.num,
                         result.ar.ratio.den)
        /\ IsRoundSqrtOf(result.baseH, DefaultPixels * result.ar.ratio.den,
                         result.ar.ratio.num)

(***************************************************************************)
(* C5.  GCD reduction: whenever the reported ratio is computed from a pair *)
(* of positive dimensions (w, h), aspectW and aspectH are coprime integers *)
(* and aspectW * h = aspectH * w.                                          *)
(***************************************************************************)
\* the (w, h) handed to _compute_ar_from_dimensions for the returned result
ArDimensions ==
    CASE result.mode \in {"exact_dims", "ar_only"} ->
            <<runtime_context.image_info.width, runtime_context.image_info.height>>
      [] result.mode \in {"mp_scalar_with_ar", "width_height_explicit"} ->
            <<widgets.width_value, widgets.height_value>>
      [] result.mode \in {"mp_width_explicit", "mp_height_explicit"} ->
            <<result.baseW, result.baseH>>

ComputedArModes ==
    {"exact_dims", "ar_only", "mp_scalar_with_ar", "width_height_explicit",
     "mp_width_explicit", "mp_height_explicit"}

C5_GcdReduction ==
    (Returned /\ result.mode \in ComputedArModes
       /\ ArDimensions[1] > 0 /\ ArDimensions[2] > 0) =>
        /\ result.ar.aspectW.den = 1 /\ result.ar.aspectH.den = 1
        /\ result.ar.aspectW.num > 0 /\ result.ar.aspectH.num > 0
        /\ Coprime(result.ar.aspectW.num, result.ar.aspectH.num)
        /\ result.ar.aspectW.num * ArDimensions[2]
             = result.ar.aspectH.num * ArDimensions[1]

\* a pair with a common divisor was reduced: 1200x1250 to 24:25
C5_Witness ==
    /\ Returned
    /\ result.mode = "mp_width_explicit"
    /\ ArDimensions = <<1200, 1250>>
    /\ result.ar.aspectW.num = 24
    /\ result.ar.aspectH.num = 25

(***************************************************************************)
(* C6.  Level 1 (Exact Dims with an image): the call returns the image's   *)
(* width and height exactly, source 'image', and the GCD reduction of the  *)
(* image's dimensions, whatever the other inputs are.                      *)
(***************************************************************************)
ExactDimsSelected == widgets.image_mode_enabled /\ widgets.image_mode_value = 1

C6_ExactDims ==
    (HasResult /\ ExactDimsSelected /\ HasImage(runtime_context)) =>
        /\ ~IsRaise(result)
        /\ result.mode = "exact_dims"
        /\ result.priority = 1
        /\ result.baseW = runtime_context.image_info.width
        /\ result.baseH = runtime_context.image_info.height
        /\ result.source = "image"
        /\ IsGcdReduction(result.ar, runtime_context.image_info.width,
                          runtime_context.image_info.height)

\* every other input is enabled with different values and the image wins
C6_Witness ==
    /\ Returned /\ ExactDimsSelected
    /\ EnabledCount = 3 /\ widgets.custom_ratio_enabled
    /\ widgets.width_value = 1200 /\ widgets.height_value = 800
    /\ result.baseW = 1920 /\ result.baseH = 1080
    /\ result.ar.aspectW.num = 16 /\ result.ar.aspectH.num = 9

(***************************************************************************)
(* C7.  Level 2 (megapixel, width and height enabled): the ratio is the    *)
(* GCD reduction of (width_value, height_value); baseH is                  *)
(* round(sqrt(target / ratio)) and baseW is round(sqrt(target / ratio) *   *)
(* ratio) with the unrounded root; 1920x1080 at 1.5 MP gives 1633x919,     *)
(* 16:9, priority 2.                                                       *)
(***************************************************************************)
C7_MpScalarWithAr ==
    /\ (Returned /\ ~ExactDimsSelected /\ EnabledCount = 3) =>
          LET r == result.ar.ratio
              t == TargetPixels(widgets)
          IN  /\ result.mode = "mp_scalar_with_ar"
              /\ result.priority = 2
              /\ IsGcdReduction(result.ar, widgets.width_value,
                                widgets.height_value)
              /\ t = 0 \/ (t > 0) = (r.num > 0)
              /\ IsRoundSqrtOf(result.baseH, Abs(t) * r.den, Abs(r.num))
              /\ IsRoundSqrtOf(IF r.num > 0 THEN result.baseW
                               ELSE 0 - result.baseW,
                               Abs(t) * Abs(r.num), r.den)
    /\ (HasResult /\ ~ExactDimsSelected /\ EnabledCount = 3
          /\ widgets.width_value = 1920 /\ widgets.height_value = 1080
          /\ widgets.mp_value = 1500) =>
          /\ ~IsRaise(result)
          /\ result.priority = 2
          /\ result.baseW = 1633 /\ result.baseH = 919
          /\ result.ar.aspectW = Rat(16, 1) /\ result.ar.aspectH = Rat(9, 1)

\* the documented scenario, where rounding the width from the rounded
\* height (919 * 16 / 9 = 1634) would differ
C7_Witness ==
    /\ Returned
    /\ result.mode = "mp_scalar_with_ar"
    /\ widgets.width_value = 1920 /\ widgets.height_value = 1080
    /\ widgets.mp_value = 1500
    /\ result.baseW = 1633 /\ result.baseH = 919

(***************************************************************************)
(* C8.  Level 3 MP-derived sub-cases with a positive given dimension:      *)
(* MP+Width returns baseW = width_value, baseH = round(target /            *)
(* width_value); MP+Height returns baseH = height_value, baseW =           *)
(* round(target / height_value); the ratio is the GCD reduction of the     *)
(* resulting pair (1200 at 1.5 MP: 1200x1250, 24:25; height 800 at 1.5 MP: *)
(* 1875x800, 75:32).                                                       *)
(***************************************************************************)
MpWidthSelected ==
    /\ ~ExactDimsSelected
    /\ widgets.mp_enabled /\ widgets.width_enabled /\ ~widgets.height_enabled

MpHeightSelected ==
    /\ ~ExactDimsSelected
    /\ widgets.mp_enabled /\ widgets.height_enabled /\ ~widgets.width_enabled

C8_MpDerivedPair ==
    /\ (Returned /\ MpWidthSelected /\ widgets.width_value > 0) =>
          /\ result.mode = "mp_width_explicit"
          /\ result.priority = 3
          /\ result.baseW = widgets.width_value
          /\ IsRoundOf(result.baseH, TargetPixels(widgets), widgets.width_value)
          /\ IsGcdReduction(result.ar, result.baseW, result.baseH)
    /\ (Returned /\ MpHeightSelected /\ widgets.height_value > 0) =>
          /\ result.mode = "mp_height_explicit"
          /\ result.priority = 3
          /\ result.baseH = widgets.height_value
          /\ IsRoundOf(result.baseW, TargetPixels(widgets), widgets.height_value)
          /\ IsGcdReduction(result.ar, result.baseW, result.baseH)
    /\ (HasResult /\ MpWidthSelected /\ widgets.width_value = 1200
          /\ widgets.mp_value = 1500) =>
          /\ ~IsRaise(result)
          /\ result.baseW = 1200 /\ result.baseH = 1250
          /\ result.ar.aspectW = Rat(24, 1) /\ result.ar.aspectH = Rat(25, 1)
    /\ (HasResult /\ MpHeightSelected /\ widgets.height_value = 800
          /\ widgets.mp_value = 1500) =>
          /\ ~IsRaise(result)
          /\ result.baseW = 1875 /\ result.baseH = 800
          /\ result.ar.aspectW = Rat(75, 1) /\ result.ar.aspectH = Rat(32, 1)

\* a quotient that is not an integer: 1,500,000 / 1024 = 1464.84 rounds up
C8_Witness ==
    /\ Returned /\ MpWidthSelected
    /\ widgets.width_value = 1024 /\ widgets.mp_value = 1500
    /\ result.baseH = 1465
    /\ widgets.custom_ratio_enabled

(***************************************************************************)
(* C9.  Non-positive dimension fallback: MP+Width with width_value <= 0    *)
(* substitutes height 1080, MP+Height with height_value <= 0 substitutes   *)
(* width 1920, and in both cases (0 included) the call returns a           *)
(* priority-3 result without raising.                                      *)
(* Violated: MP+Height with height_value = 0 raises ZeroDivisionError.     *)
(***************************************************************************)
C9_NonPositiveFallback ==
    /\ (HasResult /\ MpWidthSelected /\ widgets.width_value <= 0) =>
          (~IsRaise(result) /\ result.priority = 3 /\ result.baseH = 1080)
    /\ (HasResult /\ MpHeightSelected /\ widgets.height_value <= 0) =>
          (~IsRaise(result) /\ result.priority = 3 /\ result.baseW = 1920)

(***************************************************************************)
(* C10.  Level 3 Width+Height (width and height enabled, megapixel         *)
(* disabled, Exact Dims not selected): baseW and baseH are the two values  *)
(* verbatim, source 'widgets_explicit', and the ratio is the GCD reduction *)
(* of the pair (1024x768 gives 4:3), whatever the custom ratio, the preset *)
(* label and the AR Only image mode are.                                   *)
(***************************************************************************)
WidthHeightSelected ==
    /\ ~ExactDimsSelected
    /\ widgets.width_enabled /\ widgets.height_enabled /\ ~widgets.mp_enabled

C10_WidthHeightExplicit ==
    /\ (Returned /\ WidthHeightSelected) =>
          /\ result.mode = "width_height_explicit"
          /\ result.priority = 3
          /\ result.baseW = widgets.width_value
          /\ result.baseH = widgets.height_value
          /\ result.source = "widgets_explicit"
          /\ IsGcdReduction(result.ar, widgets.width_value, widgets.height_value)
    /\ (HasResult /\ WidthHeightSelected /\ widgets.width_value = 1024
          /\ widgets.height_value = 768) =>
          /\ ~IsRaise(result)
          /\ result.ar.aspectW = Rat(4, 1) /\ result.ar.aspectH = Rat(3, 1)

\* custom ratio and AR Only image mode are both on, with an image, and the
\* explicit pair still decides
C10_Witness ==
    /\ Returned /\ WidthHeightSelected
    /\ widgets.custom_ratio_enabled
    /\ widgets.image_mode_enabled /\ widgets.image_mode_value = 0
    /\ HasImage(runtime_context)
    /\ widgets.width_value = 1024 /\ widgets.height_value = 768
    /\ result.baseW = 1024 /\ result.baseH = 768
    /\ result.ar.aspectW.num = 4 /\ result.ar.aspectH.num = 3

(***************************************************************************)
(* C11.  Single-dimension derivation at level 4 (R = image width/height)   *)
(* and level 5 (R = the active ratio): the enabled input is looked up in   *)
(* the order width, height, megapixel.  Width gives baseW = width_value,   *)
(* baseH = round(width_value / R); height gives baseH = height_value,      *)
(* baseW = round(height_value * R); megapixel gives baseH =                *)
(* round(sqrt(target / R)) and baseW = round(sqrt(target / R) * R) from    *)
(* the unrounded root; at level 4 with none enabled the megapixel formula  *)
(* is applied to 1.0 MP.  Level 4 reports the image's reduced ratio and    *)
(* source 'image_ar'.                                                      *)
(***************************************************************************)
ArOnlySelected ==
    /\ widgets.image_mode_enabled /\ widgets.image_mode_value = 0
    /\ EnabledCount <= 1
    /\ HasImage(runtime_context)

SingleWithArSelected == ~widgets.image_mode_enabled /\ EnabledCount = 1

\* the returned dimensions follow the single-dimension formulas for the
\* ratio r (r > 0) and the pixel target used when no width/height is enabled
SingleDimensionDerived(r, target) ==
    IF widgets.width_enabled
    THEN /\ result.baseW = widgets.width_value
         /\ IsRoundOf(result.baseH, widgets.width_value * r.den, r.num)
    ELSE IF widgets.height_enabled
    THEN /\ result.baseH = widgets.height_value
         /\ IsRoundOf(result.baseW, widgets.height_value * r.num, r.den)
    ELSE /\ target >= 0
         /\ IsRoundSqrtOf(result.baseH, target * r.den, r.num)
         /\ IsRoundSqrtOf(result.baseW, target * r.num, r.den)

C11_SingleDimensionDerivation ==
    /\ (Returned /\ ArOnlySelected) =>
          /\ result.mode = "ar_only"
          /\ result.priority = 4
          /\ result.source = "image_ar"
          /\ IsGcdReduction(result.ar, runtime_context.image_info.width,
                            runtime_context.image_info.height)
          /\ SingleDimensionDerived(
                 result.ar.ratio,
                 IF widgets.mp_enabled THEN TargetPixels(widgets)
                 ELSE DefaultPixels)
    /\ (Returned /\ SingleWithArSelected /\ result.ar.ratio.num > 0) =>
          /\ result.priority = 5
          /\ result.mode = IF widgets.width_enabled THEN "width_with_ar"
                           ELSE IF widgets.height_enabled THEN "height_with_ar"
                           ELSE "mp_with_ar"
          /\ SingleDimensionDerived(result.ar.ratio, TargetPixels(widgets))

\* AR Only with megapixel 1.5 on a 1920x1080 image: 1633x919, where the
\* width derived from the rounded height would be 1634
C11_Witness ==
    /\ Returned /\ ArOnlySelected
    /\ widgets.mp_enabled /\ widgets.mp_value = 1500
    /\ runtime_context.image_info.width = 1920
    /\ result.baseW = 1633 /\ result.baseH = 919
    /\ result.activeSources = <<"MEGAPIXEL">>

(***************************************************************************)
(* C12.  Active aspect ratio precedence: at levels 5 and 6 (a level-6      *)
(* result reached by missing-image fallback included) the ratio used is    *)
(* the parse of the custom ratio text whenever custom_ratio_enabled is     *)
(* true and the parse of the preset dropdown label otherwise; it never     *)
(* depends on image_info.                                                  *)
(***************************************************************************)
Ar(ratio, aspectW, aspectH, source) ==
    [ratio |-> ratio, aspectW |-> aspectW, aspectH |-> aspectH,
     source |-> source]

\* what the texts and labels of the input domain denote
ExpectedCustomAr(text) ==
    CASE text = <<"2", ".", "3", "9", ":", "1">> ->
             Ar([num |-> 239, den |-> 100], [num |-> 239, den |-> 100],
                [num |-> 1, den |-> 1], "custom_ratio")
      [] text = <<" ", "4", ":", "3", " ">> ->
             Ar([num |-> 4, den |-> 3], [num |-> 4, den |-> 1],
                [num |-> 3, den |-> 1], "custom_ratio")
      [] OTHER ->
             Ar([num |-> 16, den |-> 9], [num |-> 16, den |-> 1],
                [num |-> 9, den |-> 1], "fallback")

ExpectedDropdownAr(label) ==
    CASE Len(label) > 4 /\ SubSeq(label, 1, 5) = <<"1", "6", ":", "9", " ">> ->
             Ar([num |-> 16, den |-> 9], [num |-> 16, den |-> 1],
                [num |-> 9, den |-> 1], "dropdown")
      [] Len(label) > 4 /\ SubSeq(label, 1, 5) = <<"2", "1", ":", "9", " ">> ->
             Ar([num |-> 7, den |-> 3], [num |-> 21, den |-> 1],
                [num |-> 9, den |-> 1], "dropdown")
      [] OTHER ->
             Ar([num |-> 16, den |-> 9], [num |-> 16, den |-> 1],
                [num |-> 9, den |-> 1], "fallback")

C12_ActiveRatioPrecedence ==
    (Returned /\ result.priority \in {5, 6}) =>
        result.ar = IF widgets.custom_ratio_enabled
                    THEN ExpectedCustomAr(widgets.custom_aspect_ratio)
                    ELSE ExpectedDropdownAr(widgets.aspect_ratio_dropdown)

\* custom 2.39:1 wins over the 21:9 preset in a missing-image fallback
C12_Witness ==
    /\ Returned /\ result.priority = 6
    /\ MissingImageFallback
    /\ widgets.custom_ratio_enabled
    /\ widgets.custom_aspect_ratio = <<"2", ".", "3", "9", ":", "1">>
    /\ ExpectedDropdownAr(widgets.aspect_ratio_dropdown).aspectW.num = 21
    /\ result.ar.source = "custom_ratio"
    /\ result.ar.aspectW = [num |-> 239, den |-> 100]

(***************************************************************************)
(* C13.  Custom ratio parsing: trimmed text of the form A:B with unsigned  *)
(* decimal numbers yields ratio A/B with aspectW = A, aspectH = B          *)
(* unreduced and source custom; every other text, a non-positive value     *)
(* such as "16:0" included, yields the fallback 16:9 with source fallback  *)
(* and a result is still returned.                                         *)
(* Violated: "16:0" matches the pattern and the division A / B raises.     *)
(***************************************************************************)
\* the active ratio is consulted: level 5, level 6, or the Defaults
\* fallback of a missing image
ActiveRatioConsulted == SelectedLevel \in {5, 6} \/ MissingImageFallback

\* Megapixel+AR with a negative megapixel value has no real square root
NegativeTarget ==
    SelectedLevel = 5 /\ widgets.mp_enabled /\ widgets.mp_value < 0

C13_CustomRatioParsing ==
    (HasResult /\ ActiveRatioConsulted /\ ~NegativeTarget
              /\ widgets.custom_ratio_enabled) =>
        /\ Returned
        /\ result.ar = ExpectedCustomAr(widgets.custom_aspect_ratio)

(***************************************************************************)
(* C14.  Preset label parsing: a label that begins with an integer pair    *)
(* W:H yields aspectW = W, aspectH = H, ratio W/H and source dropdown;     *)
(* every label that cannot be parsed into a usable ratio yields the        *)
(* fallback 16:9 with source fallback, and a result is still returned.     *)
(* Violated: the label "16:0" matches the pattern and W / H raises.        *)
(***************************************************************************)
C14_PresetLabelParsing ==
    (HasResult /\ ActiveRatioConsulted /\ ~NegativeTarget
              /\ ~widgets.custom_ratio_enabled) =>
        /\ Returned
        /\ result.ar = ExpectedDropdownAr(widgets.aspect_ratio_dropdown)

(***************************************************************************)
(* C15.  Conflict reporting is complete: each enabled input (width,        *)
(* height, megapixel, image mode, custom ratio) that the selected          *)
(* computation path does not use to produce baseW/baseH/ar is named in     *)
(* the affectedWidgets of some conflict of the returned list.              *)
(* Violated: the Defaults result of a missing image reports nothing, and   *)
(* Exact Dims does not report an enabled custom ratio.                     *)
(***************************************************************************)
Inputs == {"width", "height", "megapixel", "image_mode", "custom_ratio"}

InputEnabled(i) ==
    CASE i = "width" -> widgets.width_enabled
      [] i = "height" -> widgets.height_enabled
      [] i = "megapixel" -> widgets.mp_enabled
      [] i = "image_mode" -> widgets.image_mode_enabled
      [] i = "custom_ratio" -> widgets.custom_ratio_enabled

\* the names under which a conflict refers to an input
WidgetNames(i) ==
    CASE i = "width" -> {"dimension_width"}
      [] i = "height" -> {"dimension_height"}
      [] i = "megapixel" -> {"dimension_megapixel"}
      [] i = "image_mode" -> {"image_mode"}
      [] i = "custom_ratio" -> {"custom_ratio", "custom_aspect_ratio"}

\* the first enabled dimension input in the order width, height, megapixel
FirstEnabledDimension ==
    IF widgets.width_enabled THEN {"width"}
    ELSE IF widgets.height_enabled THEN {"height"}
    ELSE IF widgets.mp_enabled THEN {"megapixel"}
    ELSE {}

\* the inputs from which a result of the given mode is computed
UsedInputs(mode) ==
    CASE mode = "exact_dims" -> {"image_mode"}
      [] mode = "mp_scalar_with_ar" -> {"width", "height", "megapixel"}
      [] mode = "width_height_explicit" -> {"width", "height"}
      [] mode = "mp_width_explicit" -> {"megapixel", "width"}
      [] mode = "mp_height_explicit" -> {"megapixel", "height"}
      [] mode = "ar_only" -> {"image_mode"} \cup FirstEnabledDimension
      [] mode = "width_with_ar" -> {"width", "custom_ratio"}
      [] mode = "height_with_ar" -> {"height", "custom_ratio"}
      [] mode = "mp_with_ar" -> {"megapixel", "custom_ratio"}
      [] mode = "defaults_with_ar" -> {"custom_ratio"}

Range(seq) == {seq[k] : k \in 1..Len(seq)}

\* input i is named by some conflict of the result
Reported(i) ==
    \E c \in Range(result.conflicts) :
        WidgetNames(i) \cap Range(c.affectedWidgets) # {}

C15_ConflictReportingComplete ==
    Returned =>
        \A i \in Inputs :
            (InputEnabled(i) /\ i \notin UsedInputs(result.mode)) => Reported(i)

(***************************************************************************)
(* Conflict lists, as the sequence of their <<type, severity>> pairs.      *)
(***************************************************************************)
ConflictSummary ==
    [k \in 1..Len(result.conflicts) |->
        <<result.conflicts[k].type, result.conflicts[k].severity>>]

\* one entry if the condition holds, none otherwise
Optional(cond, entry) == IF cond THEN <<entry>> ELSE << >>

ArOnlyEnabled == widgets.image_mode_enabled /\ widgets.image_mode_value = 0

(***************************************************************************)
(* C16.  Exact Dims conflicts: in a level-1 result the conflict list is    *)
(* exactly, in order, one info conflict 'exact_dims_overrides_widgets' iff *)
(* width or height is enabled, then one info conflict                      *)
(* 'exact_dims_overrides_mp' iff megapixel is enabled; it is non-empty     *)
(* whenever any of the three is enabled and contains nothing else.         *)
(***************************************************************************)
C16_ExactDimsConflicts ==
    (Returned /\ result.priority = 1) =>
        /\ ConflictSummary =
              Optional(widgets.width_enabled \/ widgets.height_enabled,
                       <<"exact_dims_overrides_widgets", "info">>)
              \o Optional(widgets.mp_enabled,
                          <<"exact_dims_overrides_mp", "info">>)
        /\ EnabledCount > 0 => result.conflicts # << >>

\* height alone and megapixel enabled under Exact Dims: both conflicts
C16_Witness ==
    /\ Returned /\ result.priority = 1
    /\ ~widgets.width_enabled /\ widgets.height_enabled /\ widgets.mp_enabled
    /\ widgets.custom_ratio_enabled
    /\ Len(result.conflicts) = 2
    /\ result.conflicts[1].type = "exact_dims_overrides_widgets"

(***************************************************************************)
(* C17.  Level-2 conflicts: in an mp_scalar_with_ar result the conflict    *)
(* list is exactly, in order, one warning for the overridden custom ratio  *)
(* iff custom_ratio_enabled, then one warning for the overridden image AR  *)
(* iff image mode is enabled with AR Only; no dropdown conflict.           *)
(***************************************************************************)
C17_MpScalarConflicts ==
    (Returned /\ result.mode = "mp_scalar_with_ar") =>
        /\ ConflictSummary =
              Optional(widgets.custom_ratio_enabled,
                       <<"mp_scalar_overrides_custom_ar", "warning">>)
              \o Optional(ArOnlyEnabled,
                          <<"mp_scalar_overrides_image_ar", "warning">>)
        /\ \A c \in Range(result.conflicts) :
              "aspect_ratio" \notin Range(c.affectedWidgets)

C17_Witness ==
    /\ Returned /\ result.mode = "mp_scalar_with_ar"
    /\ widgets.custom_ratio_enabled /\ ArOnlyEnabled
    /\ HasImage(runtime_context)
    /\ Len(result.conflicts) = 2
    /\ result.conflicts[2].affectedWidgets = <<"image_mode">>

(***************************************************************************)
(* C18.  Level-3 conflicts: in every explicit-pair result (W+H, MP+W,      *)
(* MP+H) the conflict list is, in order, a warning for the custom ratio    *)
(* iff custom_ratio_enabled, a warning for image AR iff image mode is      *)
(* enabled with AR Only, and always one info conflict stating that the     *)
(* preset dropdown is overridden, so the list is never empty at level 3.   *)
(***************************************************************************)
ExplicitPairModes ==
    {"width_height_explicit", "mp_width_explicit", "mp_height_explicit"}

C19_ArOnlyConflicts ==
    (Returned /\ result.mode = "ar_only") =>
        /\ result.priority = 4
        /\ ConflictSummary =
              Optional(widgets.custom_ratio_enabled,
                       <<"ar_only_overrides_custom", "warning">>)

C19_Witness ==
    /\ Returned /\ result.mode = "ar_only"
    /\ widgets.custom_ratio_enabled /\ widgets.height_enabled
    /\ Len(result.conflicts) = 1
    /\ result.conflicts[1].severity = "warning"

(***************************************************************************)
(* C20.  Every result with priority 5 or 6 has an empty conflict list, for *)
(* every widget state, level-6 results reached by missing-image fallback   *)
(* while width, height, megapixel or custom ratio are enabled included.    *)
(***************************************************************************)
C20_NoConflictsAtLevels5And6 ==
    (Returned /\ result.priority \in {5, 6}) => result.conflicts = << >>

\* Exact Dims without an image, everything else enabled
C20_Witness ==
    /\ Returned /\ result.priority = 6
    /\ MissingImageFallback /\ SelectedLevel = 1
    /\ EnabledCount = 3 /\ widgets.custom_ratio_enabled
    /\ result.conflicts = << >>

(***************************************************************************)
(* C23.  Level 6 uses the formula of the level-5 megapixel sub-case: for   *)
(* every custom-ratio / preset setting the Defaults result's baseW, baseH  *)
(* and ar equal those of mp_with_ar evaluated with mp_value = 1.0 on the   *)
(* same widgets; the preset "21:9 (...)" with nothing enabled gives        *)
(* priority 6, 1528x655, ar 21:9.                                          *)
(***************************************************************************)
UltrawideLabel ==
    <<"2", "1", ":", "9", " ", "(", "U", "l", "t", "r", "a", "w", "i", "d",
      "e", " ", "C", "i", "n", "e", "m", "a", " ", "2", ".", "3", "5", ":",
      "1", ")">>

\* the level-5 megapixel result on the same widgets with mp_value = 1.0
MpWithArAtOneMegapixel ==
    _calculate_mp_with_ar([widgets EXCEPT !.mp_value = 1000])

NothingEnabled ==
    /\ EnabledCount = 0
    /\ ~widgets.image_mode_enabled

C23_DefaultsAsOneMegapixel ==
    /\ (Returned /\ result.mode = "defaults_with_ar") =>
          /\ ~IsRaise(MpWithArAtOneMegapixel)
          /\ result.baseW = MpWithArAtOneMegapixel.baseW
          /\ result.baseH = MpWithArAtOneMegapixel.baseH
          /\ result.ar = MpWithArAtOneMegapixel.ar
    /\ (Returned /\ NothingEnabled /\ ~widgets.custom_ratio_enabled
                 /\ widgets.aspect_ratio_dropdown = UltrawideLabel) =>
          /\ result.priority = 6
          /\ result.baseW = 1528 /\ result.baseH = 655
          /\ result.ar.aspectW = [num |-> 21, den |-> 1]
          /\ result.ar.aspectH = [num |-> 9, den |-> 1]

C23_Witness ==
    /\ Returned /\ NothingEnabled /\ ~widgets.custom_ratio_enabled
    /\ widgets.aspect_ratio_dropdown = UltrawideLabel
    /\ widgets.mp_value = 1500
    /\ result.mode = "defaults_with_ar"
    /\ result.baseW = 1528 /\ result.baseH = 655

(***************************************************************************)
(* C24.  Every result's ar record carries the four fields ratio, aspectW,  *)
(* aspectH and source, with source one of custom, dropdown, computed or    *)
(* fallback; a ratio derived from concrete dimensions (levels 1 to 4) is   *)
(* tagged with source computed.                                            *)
(* Violated: the ratio computed from dimensions has no source field.       *)
(***************************************************************************)
C24_ArRecordComplete ==
    Returned =>
        /\ DOMAIN result.ar = {"ratio", "aspectW", "aspectH", "source"}
        /\ result.ar.source \in {"custom_ratio", "dropdown", "computed",
                                 "fallback"}
        /\ result.priority \in 1..4 => result.ar.source = "computed"

(***************************************************************************)
(* C25.  Conflicts are advisory only: two widget states that select the    *)
(* same mode and agree on the inputs that mode uses get the same priority, *)
(* baseW, baseH and ar even when their conflict lists differ; toggling an  *)
(* overridden input (custom ratio at levels 1 to 4, AR Only image mode at  *)
(* levels 2 and 3, width/height/megapixel at level 1, the preset label at  *)
(* levels 1 to 4) never changes the numeric result.  Stated against the    *)
(* state in which every input the mode does not use is reset.              *)
(***************************************************************************)
\* the widgets with the inputs that the given mode overrides switched off
\* and their values reset
WithoutOverridden(w, mode) ==
    LET noRatio == [w EXCEPT !.custom_ratio_enabled = FALSE,
                             !.custom_aspect_ratio = DefaultCustomText,
                             !.aspect_ratio_dropdown = DefaultDropdown]
        noImage == [noRatio EXCEPT !.image_mode_enabled = FALSE,
                                   !.image_mode_value = 0]
    IN  CASE mode = "exact_dims" ->
                 [noRatio EXCEPT !.width_enabled = FALSE, !.width_value = 1,
                                 !.height_enabled = FALSE, !.height_value = 1,
                                 !.mp_enabled = FALSE, !.mp_value = 1000]
          [] mode = "mp_scalar_with_ar" -> noImage
          [] mode = "width_height_explicit" ->
                 [noImage EXCEPT !.mp_value = 1000]
          [] mode = "mp_width_explicit" ->
                 [noImage EXCEPT !.height_value = 1]
          [] mode = "mp_height_explicit" ->
                 [noImage EXCEPT !.width_value = 1]
          [] mode = "ar_only" -> noRatio
          [] OTHER -> w

ResultWithoutOverridden ==
    calculate_dimension_source(WithoutOverridden(widgets, result.mode),
                               runtime_context)

C25_ConflictsAdvisory ==
    Returned =>
        /\ ~IsRaise(ResultWithoutOverridden)
        /\ ResultWithoutOverridden.mode = result.mode
        /\ ResultWithoutOverridden.priority = result.priority
        /\ ResultWithoutOverridden.baseW = result.baseW
        /\ ResultWithoutOverridden.baseH = result.baseH
        /\ ResultWithoutOverridden.ar = result.ar

\* W+H with custom ratio and AR Only both overridden: three conflicts here,
\* one in the reset state, same numbers
C25_Witness ==
    /\ Returned /\ result.mode = "width_height_explicit"
    /\ widgets.custom_ratio_enabled /\ ArOnlyEnabled
    /\ HasImage(runtime_context)
    /\ Len(result.conflicts) = 3
    /\ Len(ResultWithoutOverridden.conflicts) = 1
    /\ ResultWithoutOverridden.baseW = result.baseW

(***************************************************************************)
(* C28.  Sub-case order cannot matter: whenever the level-4 formula runs   *)
(* (AR Only with an image present) at most one of width/height/megapixel   *)
(* is enabled, and whenever a level-5 formula runs exactly one of them is  *)
(* enabled, because every state with two or more enabled is captured by    *)
(* level 2 or 3 first.                                                     *)
(***************************************************************************)
SingleWithArModes == {"width_with_ar", "height_with_ar", "mp_with_ar"}

C28_SubCaseOrderIrrelevant ==
    /\ (HasResult /\ EnabledCount >= 2 /\ ~LevelCondition(1)) =>
          (Returned => result.priority \in {2, 3})
    /\ (Returned /\ result.mode = "ar_only") => EnabledCount <= 1
    /\ (Returned /\ result.mode \in SingleWithArModes) => EnabledCount = 1

\* two inputs enabled under AR Only with an image: level 3, not level 4
C28_Witness ==
    /\ Returned /\ ArOnlyEnabled /\ HasImage(runtime_context)
    /\ widgets.width_enabled /\ widgets.mp_enabled /\ ~widgets.height_enabled
    /\ result.mode = "mp_width_explicit"

(***************************************************************************)
(* C29.  The returned mode determines priority and source by a fixed       *)
(* mapping, and no result carries a mode outside the ten modes or a        *)
(* priority/source that disagrees with its mode.                           *)
(***************************************************************************)
ModeTable ==
    { <<"exact_dims", 1, "image">>,
      <<"mp_scalar_with_ar", 2, "widgets_mp_scalar">>,
      <<"width_height_explicit", 3, "widgets_explicit">>,
      <<"mp_width_explicit", 3, "widgets_mp_computed">>,
      <<"mp_height_explicit", 3, "widgets_mp_computed">>,
      <<"ar_only", 4, "image_ar">>,
      <<"width_with_ar", 5, "widget_with_ar">>,
      <<"height_with_ar", 5, "widget_with_ar">>,
      <<"mp_with_ar", 5, "widget_with_ar">>,
      <<"defaults_with_ar", 6, "defaults">> }

C29_ModeDeterminesPriorityAndSource ==
    Returned => <<result.mode, result.priority, result.source>> \in ModeTable

C29_Witness ==
    /\ Returned /\ result.mode = "width_with_ar"
    /\ result.priority = 5 /\ result.source = "widget_with_ar"
    /\ widgets.width_value = 1920

(***************************************************************************)
(* C30.  activeSources names only enabled dimension inputs the formula     *)
(* read: every entry (WIDTH, HEIGHT, MEGAPIXEL) corresponds to a widget    *)
(* whose enabled flag is true, the list is empty at levels 1 and 6         *)
(* (missing-image fallback included), and at levels 2, 3 and 5 it is       *)
(* exactly the set of enabled dimension inputs.                            *)
(***************************************************************************)
EnabledSources ==
    (IF widgets.width_enabled THEN {"WIDTH"} ELSE {})
    \cup (IF widgets.height_enabled THEN {"HEIGHT"} ELSE {})
    \cup (IF widgets.mp_enabled THEN {"MEGAPIXEL"} ELSE {})

C30_ActiveSources ==
    Returned =>
        /\ Range(result.activeSources) \subseteq EnabledSources
        /\ Cardinality(Range(result.activeSources)) = Len(result.activeSources)
        /\ result.priority \in {1, 6} => result.activeSources = << >>
        /\ result.priority \in {2, 3, 5} =>
              Range(result.activeSources) = EnabledSources

\* megapixel alone at level 5
C30_Witness ==
    /\ Returned /\ result.mode = "mp_with_ar"
    /\ widgets.mp_value = 1500
    /\ result.activeSources = <<"MEGAPIXEL">>

(***************************************************************************)
(* The request boundary: SmartResolutionCalc.calculate_dimensions_api and  *)
(* the handler of POST /smart-resolution/calculate-dimensions, which calls *)
(* it with the 'widgets' and 'runtime_context' members of the JSON body.   *)
(***************************************************************************)
\* Python's None (data.get('widgets') of a body without the member)
None == [none |-> TRUE]

IsNone(x) == "none" \in DOMAIN x

\* the element of a one-element set; {e(v) : v \in {x}} binds x once
The(S) == CHOOSE v \in S : TRUE

\* the dict d with d[key] = value added
With(d, key, value) ==
    The({[k \in DOMAIN v \cup {key} |-> IF k = key THEN value ELSE v[k]] :
             v \in {d}})

\* (width_value, height_value) of the requests: documented sizes and 0 x 0
ApiDimensionPairs == {<<1920, 1080>>, <<1200, 800>>, <<0, 0>>}

\* complete widgets dicts
ApiWidgetStates ==
    { [width_enabled |-> we, width_value |-> wh[1],
       height_enabled |-> he, height_value |-> wh[2],
       mp_enabled |-> me, mp_value |-> mv,
       image_mode_enabled |-> ie, image_mode_value |-> iv,
       custom_ratio_enabled |-> ce, custom_aspect_ratio |-> ct,
       aspect_ratio_dropdown |-> dd] :
         we \in BOOLEAN, he \in BOOLEAN, me \in BOOLEAN, ie \in BOOLEAN,
         ce \in BOOLEAN, iv \in {0, 1}, wh \in ApiDimensionPairs,
         mv \in MegapixelValues, ct \in CustomTexts, dd \in DropdownLabels }

\* widgets dicts that leave out keys the resolver reads with widgets.get:
\* the empty dict, width alone, megapixel with a custom ratio whose text is
\* left out, image mode without its value
PartialWidgets ==
    { << >> }
    \cup { [width_enabled |-> we, width_value |-> wh[1]] :
              we \in BOOLEAN, wh \in ApiDimensionPairs }
    \cup { [mp_enabled |-> me, mp_value |-> mv, custom_ratio_enabled |-> ce] :
              me \in BOOLEAN, mv \in MegapixelValues, ce \in BOOLEAN }
    \cup { [image_mode_enabled |-> ie, height_enabled |-> he,
            height_value |-> wh[2]] :
              ie \in BOOLEAN, he \in BOOLEAN, wh \in ApiDimensionPairs }

ApiWidgets == ApiWidgetStates \cup PartialWidgets \cup {None}

\* SmartResolutionCalc.calculate_dimensions_api(widgets, runtime_context)
calculate_dimensions_api(w, rc) ==
    IF IsNone(w) THEN [success |-> FALSE, error |-> "AttributeError"]
    ELSE The({IF IsRaise(r) THEN [success |-> FALSE, error |-> r.exc]
               ELSE With(r, "success", TRUE) :
                  r \in {calculate_dimension_source(w, rc)}})

\* the handler calculate_dimensions(request) of src/__init__.py, from the
\* parsed body on
calculate_dimensions_endpoint(w, rc) ==
    IF IsNone(w) \/ DOMAIN w = {}
    THEN [success |-> FALSE, error |-> "No widgets provided", status |-> 400]
    ELSE The({With(r, "status", IF r.success THEN 200 ELSE 400) :
                  r \in {calculate_dimensions_api(w, rc)}})

InitApi ==
    /\ widgets \in ApiWidgets
    /\ runtime_context \in RuntimeContexts
    /\ result = NoResult
    /\ arguments = NoArguments /\ output = NoOutput
    /\ calculators = NoCalculators /\ history = NoHistory

\* a direct call of the static method
CalculateDimensionsApi ==
    /\ ~HasResult
    /\ result' = calculate_dimensions_api(widgets, runtime_context)
    /\ UNCHANGED <<widgets, runtime_context, node_vars, call_vars>>

\* a POST to the endpoint
CalculateDimensionsEndpoint ==
    /\ ~HasResult
    /\ result' = calculate_dimensions_endpoint(widgets, runtime_context)
    /\ UNCHANGED <<widgets, runtime_context, node_vars, call_vars>>

NextApi == CalculateDimensionsApi \/ CalculateDimensionsEndpoint

SpecApi == InitApi /\ [][NextApi]_vars

(***************************************************************************)
(* C21.  Request boundary: calculate_dimensions_api never raises; for      *)
(* every request that carries a widgets object, whatever its fields hold   *)
(* and with optional fields missing, it returns the resolver's result with *)
(* success = true; a {success: false, error} response is produced only for *)
(* structurally invalid requests such as a missing widgets object.         *)
(* Violated: every exception of the resolver becomes success = false, and  *)
(* the endpoint rejects an empty widgets object.                           *)
(***************************************************************************)
ResolverResult == calculate_dimension_source(widgets, runtime_context)

C21_RequestBoundary ==
    HasResult =>
        /\ "success" \in DOMAIN result
        /\ ~IsNone(widgets) =>
              /\ result.success
              /\ ~IsRaise(ResolverResult)
              /\ \A k \in DOMAIN ResolverResult : result[k] = ResolverResult[k]
        /\ ~result.success => IsNone(widgets)

(***************************************************************************)
(* The node: SmartResolutionCalc.calculate_dimensions.  It builds widgets  *)
(* and runtime_context from its arguments, calls the resolver, then        *)
(* applies the scale and the divisibility rounding.  The preview, image    *)
(* and latent outputs and the info string are not modelled; the ratio      *)
(* parsed at lines 986-1004 is only logged and has no effect.              *)
(***************************************************************************)
\* str(n) for n >= 0
RECURSIVE str(_)
str(n) ==
    IF n < 10 THEN <<CHOOSE c \in Digits : DigitVal(c) = n>>
    ELSE str(n \div 10) \o str(n % 10)

\* format_aspect_ratio(width, height): width // 0 raises
format_aspect_ratio(width, height) ==
    LET divisor == gcd(width, height)
    IN  IF divisor = 0 THEN Raise("ZeroDivisionError")
        ELSE str(width \div divisor) \o <<":">> \o str(height \div divisor)

\* int(x * scale) for an int x and a float scale: truncation towards zero
IntTimes(x, scale) ==
    LET n == x * scale.num
    IN  IF n >= 0 THEN n \div scale.den ELSE 0 - ((0 - n) \div scale.den)

\* max(0.0, scale)
ClampScale(scale) == IF scale.num < 0 THEN Rat(0, 1) ELSE scale

Exact == <<"E", "x", "a", "c", "t">>

\* "Exact" means no rounding (divisor = 1)
Divisor(divisible_by) ==
    IF divisible_by = Exact THEN 1 ELSE DigitsValue(divisible_by)

\* variant: the scaled dimension is cut down to the multiple below it
ScaleAndRound_Truncated(x, scale, divisor) ==
    ((x * scale.num) \div (scale.den * divisor)) * divisor

\* int(round(x * scale / divisor) * divisor)
ScaleAndRound(x, scale, divisor) ==
    RoundDiv(x * scale.num, scale.den * divisor) * divisor

DefaultImageMode == [on |-> TRUE, value |-> 0]

SixteenByNine == <<"1", "6", ":", "9">>

\* the widgets dict and the runtime context the node hands to the resolver
NodeWidgets(a) ==
    LET image_mode == Get(a.kwargs, "image_mode", DefaultImageMode)
        use_image == Get(image_mode, "on", TRUE)
        exact_dims == Get(image_mode, "value", 0) = 1
        from_image == ~IsNone(a.image) /\ use_image
        forced == from_image /\ exact_dims
        dimension_width ==
            IF forced
            THEN [on |-> TRUE, value |-> IntTimes(a.image.width, a.scale)]
            ELSE Get(a.kwargs, "dimension_width", << >>)
        dimension_height ==
            IF forced
            THEN [on |-> TRUE, value |-> IntTimes(a.image.height, a.scale)]
            ELSE Get(a.kwargs, "dimension_height", << >>)
        dimension_megapixel == Get(a.kwargs, "dimension_megapixel", << >>)
        custom_ratio == (from_image /\ ~exact_dims) \/ a.custom_ratio
        custom_aspect_ratio ==
            IF from_image /\ ~exact_dims
            THEN format_aspect_ratio(a.image.width, a.image.height)
            ELSE a.custom_aspect_ratio
    IN  [widgets |->
            [width_enabled |-> Get(dimension_width, "on", FALSE),
             width_value |-> Get(dimension_width, "value", 1920),
             height_enabled |-> Get(dimension_height, "on", FALSE),
             height_value |-> Get(dimension_height, "value", 1080),
             mp_enabled |-> Get(dimension_megapixel, "on", FALSE),
             mp_value |-> Get(dimension_megapixel, "value", 1000),
             image_mode_enabled |-> use_image,
             image_mode_value |-> IF exact_dims THEN 1 ELSE 0,
             custom_ratio_enabled |-> custom_ratio,
             custom_aspect_ratio |->
                 IF custom_ratio THEN custom_aspect_ratio ELSE SixteenByNine,
             aspect_ratio_dropdown |-> a.aspect_ratio],
         runtime_context |->
            IF from_image
            THEN [image_info |-> [width |-> a.image.width,
                                  height |-> a.image.height]]
            ELSE NoImageContext]

\* the returned (mp, w, h) for the resolver's result r; an exception of the
\* resolver propagates, and format_aspect_ratio(0, 0) raises at line 1222
NodeOutput(a, r) ==
    IF IsRaise(r) THEN r
    ELSE LET scale == ClampScale(a.scale)
             divisor == Divisor(a.divisible_by)
             w == ScaleAndRound(r.baseW, scale, divisor)
             h == ScaleAndRound(r.baseH, scale, divisor)
         IN  IF gcd(w, h) = 0 THEN format_aspect_ratio(w, h)
             ELSE [mp |-> Rat(w * h, 1000000), w |-> w, h |-> h]

\* calculate_dimensions(aspect_ratio, divisible_by, custom_ratio,
\*                      custom_aspect_ratio, scale, image, **kwargs)
calculate_dimensions(a) ==
    The({ The({ [widgets |-> n.widgets, runtime_context |-> n.runtime_context,
                 result |-> r, output |-> NodeOutput(a, r)] :
                   r \in {calculate_dimension_source(n.widgets,
                                                     n.runtime_context)} }) :
            n \in {NodeWidgets(a)} })

\* scale values that are exact in binary floating point, so that
\* w * scale / divisor is computed without rounding error for the
\* power-of-two divisors below
NodeScales == {Rat(0 - 1, 1), Rat(0, 1), Rat(1, 2), Rat(1, 1), Rat(3, 2)}

NodeDivisibleBy == {Exact, <<"8">>, <<"1", "6">>}

NodeImages == {None} \cup ImageInfos

NodeDimensionPairs == {<<1920, 1080>>, <<1200, 800>>}

NodeMegapixels ==
    {[on |-> FALSE, value |-> 1000], [on |-> TRUE, value |-> 1000],
     [on |-> TRUE, value |-> 1500]}

NodeImageModes ==
    {[on |-> TRUE, value |-> 0], [on |-> TRUE, value |-> 1],
     [on |-> FALSE, value |-> 0]}

\* **kwargs: the dimension widgets always arrive; the megapixel widget and
\* image_mode may be missing
NodeKwargs ==
    LET dims == {[dimension_width |-> [on |-> won, value |-> wh[1]],
                  dimension_height |-> [on |-> hon, value |-> wh[2]]] :
                     won \in BOOLEAN, hon \in BOOLEAN,
                     wh \in NodeDimensionPairs}
        withMp == dims \cup {With(k, "dimension_megapixel", m) :
                                k \in dims, m \in NodeMegapixels}
    IN  withMp \cup {With(k, "image_mode", i) :
                        k \in withMp, i \in NodeImageModes}

NodeArguments ==
    [aspect_ratio : {DefaultDropdown, UltrawideLabel},
     divisible_by : NodeDivisibleBy,
     custom_ratio : BOOLEAN,
     custom_aspect_ratio : {<<"2", ".", "3", "9", ":", "1">>,
                            <<"i", "n", "v", "a", "l", "i", "d", " ", "t",
                              "e", "x", "t">>},
     scale : NodeScales,
     image : NodeImages,
     kwargs : NodeKwargs]

InitNode ==
    /\ widgets = None
    /\ runtime_context = NoImageContext
    /\ result = NoResult
    /\ arguments \in NodeArguments
    /\ output = NoOutput
    /\ calculators = NoCalculators
    /\ history = NoHistory

\* one execution of the node
CalculateDimensions ==
    /\ "pending" \in DOMAIN output
    /\ \E o \in {calculate_dimensions(arguments)} :
          /\ widgets' = o.widgets
          /\ runtime_context' = o.runtime_context
          /\ result' = o.result
          /\ output' = o.output
    /\ UNCHANGED <<arguments, call_vars>>

NextNode == CalculateDimensions

SpecNode == InitNode /\ [][NextNode]_vars

(***************************************************************************)
(* Properties of the node.                                                 *)
(***************************************************************************)
NodeReturned == "pending" \notin DOMAIN output /\ ~IsRaise(output)

NoImageConnected == IsNone(arguments.image)

\* the "on" flag of a dimension widget of the call
NodeOn(name) == Get(Get(arguments.kwargs, name, << >>), "on", FALSE)

NodeValue(name) == arguments.kwargs[name].value

\* C26: node-level resolution order when no image is connected and the
\* megapixel widget is off: width and height both on give exactly those
\* values; width alone gives the width value with the height from the aspect
\* ratio; height alone gives the height value with the width from the aspect
\* ratio; megapixels alone gives both from the aspect ratio; nothing on gives
\* the 1.0 MP default.  This holds whatever image_mode is, in particular when
\* image_mode is left at its default.
C26_NodeResolutionOrder ==
    (Returned /\ NoImageConnected) =>
        LET W == NodeOn("dimension_width")
            H == NodeOn("dimension_height")
            M == NodeOn("dimension_megapixel")
        IN  /\ (W /\ H /\ ~M) =>
                /\ result.mode = "width_height_explicit"
                /\ result.baseW = NodeValue("dimension_width")
                /\ result.baseH = NodeValue("dimension_height")
            /\ (W /\ ~H /\ ~M) =>
                /\ result.mode = "width_with_ar"
                /\ result.baseW = NodeValue("dimension_width")
            /\ (~W /\ H /\ ~M) =>
                /\ result.mode = "height_with_ar"
                /\ result.baseH = NodeValue("dimension_height")
            /\ (~W /\ ~H /\ M) => result.mode = "mp_with_ar"
            /\ (~W /\ ~H /\ ~M) => result.mode = "defaults_with_ar"

MaxCalls == 3

MaxCalculators == 2

\* DimensionSourceCalculator(): __init__ is "pass", the instance has no
\* attributes
DimensionSourceCalculator == << >>

\* variant: the instance keeps its first result and answers with it afterwards
Invoke_Cached(self, w, rc, heap) ==
    IF "last" \in DOMAIN self
    THEN [self |-> self, widgets |-> w, runtime_context |-> rc,
          result |-> self.last, address |-> self.address, heap |-> heap]
    ELSE The({[self |-> [last |-> r,
                         address |-> IF IsRaise(r) THEN 0 ELSE heap + 1],
               widgets |-> w, runtime_context |-> rc, result |-> r,
               address |-> IF IsRaise(r) THEN 0 ELSE heap + 1,
               heap |-> IF IsRaise(r) THEN heap ELSE heap + 1] :
                 r \in {calculate_dimension_source(w, rc)}})

\* self.calculate_dimension_source(widgets, runtime_context) as seen by the
\* caller: the method and its helpers assign no attribute of self and no key
\* of widgets or runtime_context ("runtime_context = runtime_context or {}"
\* rebinds the local name), and every level returns a dict literal, a new
\* object at the next address; heap is the number of dicts built so far and
\* address 0 stands for no returned object (an exception)
Invoke(self, w, rc, heap) ==
    The({[self |-> self, widgets |-> w, runtime_context |-> rc, result |-> r,
          address |-> IF IsRaise(r) THEN 0 ELSE heap + 1,
          heap |-> IF IsRaise(r) THEN heap ELSE heap + 1] :
            r \in {calculate_dimension_source(w, rc)}})

\* the inputs the callers choose from: Defaults, explicit width + height,
\* the image's ratio, an exact-dims request without image, a raising label
CallInputs ==
    LET base == [width_enabled |-> FALSE, width_value |-> 1920,
                 height_enabled |-> FALSE, height_value |-> 1080,
                 mp_enabled |-> FALSE, mp_value |-> 1000,
                 image_mode_enabled |-> FALSE, image_mode_value |-> 0,
                 custom_ratio_enabled |-> FALSE,
                 custom_aspect_ratio |-> <<"2", ".", "3", "9", ":", "1">>,
                 aspect_ratio_dropdown |-> DefaultDropdown]
        image == [image_info |-> [width |-> 1920, height |-> 1080]]
    IN  { [widgets |-> base, runtime_context |-> NoImageContext],
          [widgets |-> [base EXCEPT !.width_enabled = TRUE,
                                    !.height_enabled = TRUE],
           runtime_context |-> NoImageContext],
          [widgets |-> [base EXCEPT !.image_mode_enabled = TRUE,
                                    !.mp_enabled = TRUE],
           runtime_context |-> image],
          [widgets |-> [base EXCEPT !.image_mode_enabled = TRUE,
                                    !.image_mode_value = 1],
           runtime_context |-> NoImageContext],
          [widgets |-> [base EXCEPT !.aspect_ratio_dropdown =
                                        <<"1", "6", ":", "0">>],
           runtime_context |-> NoImageContext] }

\* number of dicts the calls so far have returned
Heap == IF Len(history) = 0 THEN 0 ELSE history[Len(history)].heap

InitCalls ==
    /\ widgets = None
    /\ runtime_context = NoImageContext
    /\ result = NoResult
    /\ arguments = NoArguments
    /\ output = NoOutput
    /\ calculators = NoCalculators
    /\ history = NoHistory

\* calculator = DimensionSourceCalculator()
NewCalculator ==
    /\ Len(calculators) < MaxCalculators
    /\ calculators' = Append(calculators, DimensionSourceCalculator)
    /\ UNCHANGED <<widgets, runtime_context, result, node_vars, history>>

\* calculators[c].calculate_dimension_source(widgets, runtime_context)
CallCalculator ==
    /\ Len(history) < MaxCalls
    /\ \E c \in 1..Len(calculators), in \in CallInputs :
          \E o \in {Invoke(calculators[c], in.widgets, in.runtime_context,
                           Heap)} :
             /\ calculators' = [calculators EXCEPT ![c] = o.self]
             /\ widgets' = o.widgets
             /\ runtime_context' = o.runtime_context
             /\ result' = o.result
             /\ history' = Append(history,
                   [calculator |-> c,
                    widgets |-> in.widgets,
                    runtime_context |-> in.runtime_context,
                    widgets_after |-> o.widgets,
                    runtime_context_after |-> o.runtime_context,
                    self_after |-> o.self,
                    result |-> o.result,
                    address |-> o.address,
                    heap |-> o.heap])
    /\ UNCHANGED node_vars

\* calculate_dimensions_api(widgets, runtime_context): an instance of its
\* own, one call, 'success' set in the returned dict (or the error dict,
\* another new object)
CallApi ==
    /\ Len(history) < MaxCalls
    /\ \E in \in CallInputs :
          \E o \in {Invoke(DimensionSourceCalculator, in.widgets,
                           in.runtime_context, Heap)} :
             /\ widgets' = o.widgets
             /\ runtime_context' = o.runtime_context
             /\ result' = IF IsRaise(o.result)
                          THEN [success |-> FALSE, error |-> o.result.exc]
                          ELSE With(o.result, "success", TRUE)
             /\ history' = Append(history,
                   [calculator |-> 0,
                    widgets |-> in.widgets,
                    runtime_context |-> in.runtime_context,
                    widgets_after |-> o.widgets,
                    runtime_context_after |-> o.runtime_context,
                    self_after |-> o.self,
                    result |-> o.result,
                    address |-> IF IsRaise(o.result) THEN o.heap + 1
                                ELSE o.address,
                    heap |-> IF IsRaise(o.result) THEN o.heap + 1
                             ELSE o.heap])
    /\ UNCHANGED <<node_vars, calculators>>

NextCalls == NewCalculator \/ CallCalculator \/ CallApi

SpecCalls == InitCalls /\ [][NextCalls]_vars

(***************************************************************************)
(* Properties of sequences of calls.                                       *)
(***************************************************************************)
Calls == 1..Len(history)

SameInput(i, j) ==
    /\ history[i].widgets = history[j].widgets
    /\ history[i].runtime_context = history[j].runtime_context

CallReturned(i) == ~IsRaise(history[i].result)

====
